---- MODULE Spec2Model ----
(***************************************************************************)
(* Model of the Prowl client library (prowler.py): the response parser     *)
(* _request, the quota cache _last_meta_data, the facade functions verify  *)
(* and post, the Prowl defaults object and the LogHandler adapter.         *)
(*                                                                         *)
(* Strings that the code inspects character by character (attribute values *)
(* passed to int(), server text passed to lower()) are sequences of one    *)
(* character strings.  Strings that are only passed along (application,    *)
(* event, message) are sequences of tokens: a literal piece or a           *)
(* "%(field)s" reference.  An optional argument is a sequence of length at *)
(* most one: None is << >> and a value v is << v >>.                        *)
(***************************************************************************)
EXTENDS Integers, Sequences, FiniteSets, TLC

\* ---------------------------------------------------------------- bounds
MaxRemaining == 1
MaxChildren == 2

\* ------------------------------------------------------- module constants
DEFAULT_PRIORITY == 0
DEFAULT_APP == << [t |-> "lit", s |-> "py:prowler"] >>
DEFAULT_EVENT == << [t |-> "lit", s |-> "default"] >>

None == << >>
Some(v) == << v >>

Lit(s) == [t |-> "lit", s |-> s]
Fld(f) == [t |-> "fld", s |-> f]

\* ------------------------------------------------------------ characters
DigitChars == << "0", "1", "2", "3", "4", "5", "6", "7", "8", "9" >>

IsDigit(c) == \E i \in 1..10 : DigitChars[i] = c

DigitVal(c) == (CHOOSE i \in 1..10 : DigitChars[i] = c) - 1

UpperToLower ==
    [c \in {"A", "E", "I", "K", "P"} |->
        CASE c = "A" -> "a"
          [] c = "E" -> "e"
          [] c = "I" -> "i"
          [] c = "K" -> "k"
          [] c = "P" -> "p"]

\* str.lower(): every upper-case letter is replaced, the rest is kept.
Lower(text) ==
    [i \in 1..Len(text) |->
        IF text[i] \in DOMAIN UpperToLower THEN UpperToLower[text[i]] ELSE text[i]]

\* int(v) for a str v: an optional sign followed by one or more digits.
HasSign(v) == Len(v) > 0 /\ v[1] \in {"-", "+"}

Unsigned(v) == IF HasSign(v) THEN Tail(v) ELSE v

IsIntLiteral(v) ==
    /\ Len(Unsigned(v)) > 0
    /\ \A i \in 1..Len(Unsigned(v)) : IsDigit(Unsigned(v)[i])

RECURSIVE DigitsValue(_)
DigitsValue(ds) ==
    IF Len(ds) = 0 THEN 0
    ELSE 10 * DigitsValue(SubSeq(ds, 1, Len(ds) - 1)) + DigitVal(ds[Len(ds)])

IntOf(v) ==
    IF Len(v) > 0 /\ v[1] = "-" THEN 0 - DigitsValue(Unsigned(v))
    ELSE DigitsValue(Unsigned(v))

\* The decimal text the service writes for a non-negative integer.
RECURSIVE DecimalOf(_)
DecimalOf(n) ==
    IF n < 10 THEN << DigitChars[n + 1] >>
    ELSE Append(DecimalOf(n \div 10), DigitChars[(n % 10) + 1])

\* ------------------------------------------------------ server responses
INVALID_API_KEY == << "I", "n", "v", "a", "l", "i", "d", " ",
                      "A", "P", "I", " ", "k", "e", "y" >>

ServerTexts ==
    { INVALID_API_KEY,
      << "i", "n", "v", "a", "l", "i", "d", " ", "a", "p", "i", " ", "k", "e", "y" >>,
      << "I", "n", "t", "e", "r", "n", "a", "l", " ", "e", "r", "r", "o", "r" >> }

NodeTexts == { None } \cup { Some(x) : x \in ServerTexts }

CodeStrings == { DecimalOf(200), DecimalOf(401), DecimalOf(500), << "4", "o", "1" >> }

RemainingStrings == { DecimalOf(n) : n \in 0..MaxRemaining } \cup { << "n", "a" >> }

ResetDateStrings == { DecimalOf(1700000000) }

AttrKeys == { "code", "remaining", "resetdate" }

AttrStrings(k) ==
    CASE k = "code" -> CodeStrings
      [] k = "remaining" -> RemainingStrings
      [] k = "resetdate" -> ResetDateStrings

Attribs ==
    UNION { { a \in [K -> CodeStrings \cup RemainingStrings \cup ResetDateStrings] :
                \A k \in K : a[k] \in AttrStrings(k) } : K \in SUBSET AttrKeys }

Node(tag, attrib, text) == [tag |-> tag, attrib |-> attrib, text |-> text]

Nodes ==
    { Node("success", a, None) : a \in Attribs }
    \cup { Node("error", a, x) : a \in { b \in Attribs : "resetdate" \notin DOMAIN b },
                                  x \in NodeTexts }
    \cup { Node("bogus", a, None) : a \in { b \in Attribs : DOMAIN b \subseteq { "code" } } }

SiblingNodes == { Node("success", [k \in { "code" } |-> DecimalOf(200)], None) }

FirstOfMany ==
    SiblingNodes \cup { Node("error", [k \in { "code" } |-> DecimalOf(401)], Some(INVALID_API_KEY)) }

RECURSIVE ChildLists(_)
ChildLists(n) ==
    IF n = 0 THEN { << >> }
    ELSE IF n = 1 THEN { << c >> : c \in Nodes }
    ELSE { Append(cs, c) : cs \in { l \in ChildLists(n - 1) : l[1] \in FirstOfMany },
                           c \in SiblingNodes }

Envelope(root, children) == [kind |-> "xml", root |-> root, children |-> children]

Responses ==
    { Envelope("prowl", cs) : cs \in UNION { ChildLists(n) : n \in 0..MaxChildren } }
    \cup { Envelope("html", cs) : cs \in { << >> } \cup { << c >> : c \in SiblingNodes } }
    \cup { [kind |-> "notxml"], [kind |-> "neterr"] }

\* ------------------------------------------------------------- _request
\* What a call leaves behind: the exception it raised ("none" when it
\* returned), why, the message an Error carries, the value returned and the
\* envelope _request handed back (parsed = FALSE when it handed back none).
Outcome(exc, reason, msg, ret) ==
    [exc |-> exc, reason |-> reason, msg |-> msg, ret |-> ret,
     parsed |-> FALSE, status |-> "-", data |-> << >>, text |-> None]

Pending == Outcome("none", "pending", << >>, "-")

\* Truth of an optional str, and of an optional int.
Truthy(opt) == opt # None /\ opt[1] # << >>

TruthyInt(opt) == opt # None /\ opt[1] # 0

BadChildCountZeroOnly(children) == Len(children) = 0

BadChildCount(children) == Len(children) # 1

\* dict((k, int(v)) for k, v in data.items())
Coerce(attrib) == [k \in DOMAIN attrib |-> IntOf(attrib[k])]

\* The checks of _request in the order the code makes them; "ok" when the
\* envelope passes them all.
Validate(res) ==
    IF res.kind = "neterr" THEN Outcome("URLError", "transport", << >>, "-")
    ELSE IF res.kind = "notxml" THEN Outcome("ParseError", "not xml", << >>, "-")
    ELSE IF res.root # "prowl"
        THEN Outcome("Error", "malformed response: unexpected tag", << >>, "-")
    ELSE IF BadChildCount(res.children)
        THEN Outcome("Error", "malformed response: too many children", << >>, "-")
    ELSE LET node == res.children[1] IN
        IF node.tag \notin { "success", "error" }
            THEN Outcome("Error", "malformed response: unknown status", << >>, "-")
        ELSE IF "code" \notin DOMAIN node.attrib
            THEN Outcome("Error", "malformed response: no response code", << >>, "-")
        ELSE IF node.tag = "error" /\ ~Truthy(node.text)
            \* '... with code %d' % data['code'] is evaluated first and
            \* data['code'] is still the attribute's str.
            THEN Outcome("TypeError", "%d format: a number is required, not str", << >>, "-")
        ELSE IF \E k \in DOMAIN node.attrib : ~IsIntLiteral(node.attrib[k])
            THEN Outcome("ValueError", "invalid literal for int()", << >>, "-")
        ELSE Outcome("none", "ok", << >>, "-")

\* _last_meta_data.update(data)
UpdateMetaKeepOld(meta, data) ==
    [k \in DOMAIN meta \cup DOMAIN data |-> IF k \in DOMAIN meta THEN meta[k] ELSE data[k]]

UpdateMeta(meta, data) ==
    [k \in DOMAIN meta \cup DOMAIN data |-> IF k \in DOMAIN data THEN data[k] ELSE meta[k]]

\* The attributes of the single child that int() accepts, coerced.
CoercibleData(res) ==
    IF res.kind = "xml" /\ Len(res.children) >= 1
    THEN LET attrib == res.children[1].attrib IN
         [k \in { j \in DOMAIN attrib : IsIntLiteral(attrib[j]) } |-> IntOf(attrib[k])]
    ELSE << >>

RequestUpdateFirst(res, meta) ==
    LET v == Validate(res) IN
    IF v.exc # "none" THEN [out |-> v, meta |-> UpdateMeta(meta, CoercibleData(res))]
    ELSE LET node == res.children[1] IN
         [out |-> [v EXCEPT !.parsed = TRUE, !.status = node.tag,
                            !.data = Coerce(node.attrib), !.text = node.text],
          meta |-> UpdateMeta(meta, Coerce(node.attrib))]

\* _request from the point where res.read() has delivered the body: the
\* outcome (an exception, or the returned status, data, text) and the cache.
Request(res, meta) ==
    LET v == Validate(res) IN
    IF v.exc # "none" THEN [out |-> v, meta |-> meta]
    ELSE LET node == res.children[1] IN
         [out |-> [v EXCEPT !.parsed = TRUE, !.status = node.tag,
                            !.data = Coerce(node.attrib), !.text = node.text],
          meta |-> UpdateMeta(meta, Coerce(node.attrib))]

get_remaining(meta) == IF "remaining" \in DOMAIN meta THEN Some(meta["remaining"]) ELSE None

get_reset_time(meta) == IF "resetdate" \in DOMAIN meta THEN Some(meta["resetdate"]) ELSE None

\* --------------------------------------------------------- verify, post
VerifyResultCodeOnly(r) ==
    IF r.status = "success" THEN [r EXCEPT !.ret = "True"]
    ELSE IF r.data["code"] = 401 THEN [r EXCEPT !.ret = "False"]
    ELSE [r EXCEPT !.exc = "Error", !.reason = "server text", !.msg = Lower(r.text[1])]

\* verify after _request returned r.
VerifyResult(r) ==
    IF r.status = "success" THEN [r EXCEPT !.ret = "True"]
    ELSE IF r.data["code"] = 401 /\ r.text = Some(INVALID_API_KEY) THEN [r EXCEPT !.ret = "False"]
    ELSE [r EXCEPT !.exc = "Error", !.reason = "server text", !.msg = Lower(r.text[1])]

PostResultVerbatim(r) ==
    IF r.status # "success"
    THEN [r EXCEPT !.exc = "Error", !.reason = "server text", !.msg = r.text[1]]
    ELSE [r EXCEPT !.ret = "None"]

\* post after _request returned r.
PostResult(r) ==
    IF r.status # "success"
    THEN [r EXCEPT !.exc = "Error", !.reason = "server text", !.msg = Lower(r.text[1])]
    ELSE [r EXCEPT !.ret = "None"]

\* ------------------------------------------------------- request formatter
StrKey(k) == [isstr |-> TRUE, keys |-> << k >>]
ListKey(ks) == [isstr |-> FALSE, keys |-> ks]

RECURSIVE JoinComma(_)
JoinComma(ks) ==
    IF Len(ks) = 0 THEN << >>
    ELSE IF Len(ks) = 1 THEN ks
    ELSE << ks[1], "," >> \o JoinComma(Tail(ks))

\* key if isinstance(key, basestring) else ','.join(key)
ApiKey(key) == IF key.isstr THEN key.keys ELSE JoinComma(key.keys)

\* The form data post builds.
AddData(key, message, priority, app, event, providerkey) ==
    LET base == [apikey |-> ApiKey(key),
                 priority |-> IF TruthyInt(priority) THEN priority[1] ELSE DEFAULT_PRIORITY,
                 application |-> IF Truthy(app) THEN app[1] ELSE DEFAULT_APP,
                 event |-> IF Truthy(event) THEN event[1] ELSE DEFAULT_EVENT,
                 description |-> message]
    IN IF providerkey = None THEN base
       ELSE [k \in DOMAIN base \cup { "providerkey" } |->
                IF k = "providerkey" THEN providerkey[1] ELSE base[k]]

NoRequest == [method |-> "-"]

VerifyRequest(key) == [method |-> "verify", query |-> key.keys, data |-> None]

AddRequest(data) == [method |-> "add", query |-> << >>, data |-> Some(data)]

\* ------------------------------------------------------------------ Prowl
\* Prowl.__init__: the keyword defaults with the key stored among them.
Construct(key, kwdefaults) ==
    [k \in DOMAIN kwdefaults \cup { "key" } |-> IF k = "key" THEN key ELSE kwdefaults[k]]

\* meta = self.defaults.copy(); meta.update(kwargs)
Merge(dflts, kwargs) ==
    [k \in DOMAIN dflts \cup DOMAIN kwargs |-> IF k \in DOMAIN kwargs THEN kwargs[k] ELSE dflts[k]]

Arg(meta, name) == IF name \in DOMAIN meta THEN meta[name] ELSE None

\* post(message=message, **meta)
ProwlPostData(dflts, message, kwargs) ==
    LET meta == Merge(dflts, kwargs) IN
    AddData(meta["key"], message, Arg(meta, "priority"), Arg(meta, "app"),
            Arg(meta, "event"), Arg(meta, "providerkey"))

\* ------------------------------------------------------------- LogHandler
\* template % record.__dict__ : KeyError when a referenced field is missing.
CanInterpolate(template, fields) ==
    \A i \in 1..Len(template) : template[i].t = "fld" => template[i].s \in DOMAIN fields

RECURSIVE Interpolate(_, _)
Interpolate(template, fields) ==
    IF Len(template) = 0 THEN << >>
    ELSE (IF template[1].t = "fld" THEN fields[template[1].s] ELSE << template[1] >>)
         \o Interpolate(Tail(template), fields)

\* The keys of ('app', 'event') that emit interpolates.
EmitKeys(dflts) == { "app", "event" } \cap DOMAIN dflts

\* The exception the interpolation of key k raises, "none" when it works.
EmitKeyError(dflts, record, k) ==
    IF k \notin DOMAIN dflts THEN "none"
    ELSE IF dflts[k] = None THEN "TypeError"
    ELSE IF ~CanInterpolate(dflts[k][1], record) THEN "KeyError"
    ELSE "none"

\* for key in ('app', 'event'): the first failure ends emit.
EmitError(dflts, record) ==
    IF EmitKeyError(dflts, record, "app") # "none" THEN EmitKeyError(dflts, record, "app")
    ELSE EmitKeyError(dflts, record, "event")

EmitData(dflts, record) ==
    [k \in EmitKeys(dflts) |-> Some(Interpolate(dflts[k][1], record))]

\* self.format(record) with the default formatter: the record's message.
Format(record) == record["msg"]

\* ------------------------------------------------------------- the inputs
ApiKeys == { StrKey("k1"), ListKey(<< "k1", "k2" >>) }

Messages == { << Lit("hello") >> }

PriorityArgs == { None, Some(0), Some(2) }

AppArgs == { None, Some(<< Lit("cron") >>) }

EventArgs == { None, Some(<< Lit("done") >>) }

ProviderKeyArgs == { None, Some(<< "pk" >>) }

OverrideValues(name) ==
    CASE name = "key" -> { StrKey("k2") }
      [] name = "priority" -> { Some(1) }
      [] name = "app" -> { Some(<< Lit("web") >>) }
      [] name = "event" -> { Some(<< Lit("push") >>) }

OverrideNames == { "key", "priority", "app", "event" }

Overrides ==
    { [n \in N |-> CHOOSE v \in OverrideValues(n) : TRUE] : N \in SUBSET OverrideNames }

\* Log records: the fields of record.__dict__ the templates can name.
Records ==
    { [name |-> << Lit("root") >>, levelname |-> << Lit("INFO") >>, msg |-> << Lit("up") >>],
      [name |-> << Lit("root") >>, levelname |-> << Lit("INFO") >>, msg |-> << Lit("up") >>,
       user |-> << Lit("ann") >>] }

ConstructorDefaults ==
    { << >>,
      [app |-> Some(<< Lit("log:"), Fld("name") >>), event |-> Some(<< Fld("levelname") >>)],
      [priority |-> Some(2), app |-> Some(<< Fld("user") >>)] }

\* ------------------------------------------------------------------ state
VARIABLES
    last_meta_data,   \* the quota cache _last_meta_data
    defaults,         \* the defaults of the Prowl / LogHandler object
    pc,               \* "idle", or "waiting" inside urlopen
    op,               \* the entry point of the current or last call
    call,             \* the arguments of the call in progress
    request,          \* the request in flight
    response,         \* the response the last completed request received
    result,           \* what the last call raised or returned
    had_success       \* some request has returned a success status

vars == << last_meta_data, defaults, pc, op, call, request, response, result, had_success >>

NoCall == [args |-> "-"]
NoResponse == [kind |-> "-"]

Init ==
    /\ last_meta_data = << >>
    /\ defaults \in { Construct(StrKey("k1"), kw) : kw \in ConstructorDefaults }
    /\ pc = "idle"
    /\ op = "-"
    /\ call = NoCall
    /\ request = NoRequest
    /\ response = NoResponse
    /\ result = Pending
    /\ had_success = FALSE

\* A call reaches urlopen with req.
Send(name, args, req) ==
    /\ pc' = "waiting"
    /\ op' = name
    /\ call' = args
    /\ request' = req
    /\ response' = NoResponse
    /\ result' = Pending
    /\ UNCHANGED << last_meta_data, defaults, had_success >>

\* A call raises before it sends anything.
Raise(name, exc, reason) ==
    /\ pc' = "idle"
    /\ op' = name
    /\ call' = NoCall
    /\ request' = NoRequest
    /\ response' = NoResponse
    /\ result' = Outcome(exc, reason, << >>, "-")
    /\ UNCHANGED << last_meta_data, defaults, had_success >>

\* verify(key) up to urlopen; 'verify?apikey=' + key needs a str.
Verify(key) ==
    /\ pc = "idle"
    /\ IF key.isstr
       THEN Send("verify", [args |-> "verify", key |-> key], VerifyRequest(key))
       ELSE Raise("verify", "TypeError", "cannot concatenate 'str' and 'list' objects")

\* post(key, message, priority, app, event, providerkey) up to urlopen.
Post(key, message, priority, app, event, providerkey) ==
    /\ pc = "idle"
    /\ Send("post", [args |-> "post", key |-> key],
            AddRequest(AddData(key, message, priority, app, event, providerkey)))

\* Prowl.post(message, **kwargs) up to urlopen.
ProwlPost(message, kwargs) ==
    /\ pc = "idle"
    /\ Send("Prowl.post", [args |-> "Prowl.post", message |-> message, kwargs |-> kwargs],
            AddRequest(ProwlPostData(defaults, message, kwargs)))

\* LogHandler.emit(record) up to urlopen.
Emit(record) ==
    /\ pc = "idle"
    /\ IF EmitError(defaults, record) # "none"
       THEN Raise("LogHandler.emit", EmitError(defaults, record), "interpolation")
       ELSE Send("LogHandler.emit",
                 [args |-> "LogHandler.emit", message |-> Format(record),
                  kwargs |-> EmitData(defaults, record)],
                 AddRequest(ProwlPostData(defaults, Format(record), EmitData(defaults, record))))

\* urlopen delivers res (as its return value or as the HTTPError it raised,
\* which the code binds to the same name): the rest of _request runs, then
\* the rest of verify or post.
Respond(res) ==
    /\ pc = "waiting"
    /\ LET r == Request(res, last_meta_data) IN
       /\ last_meta_data' = r.meta
       /\ result' = IF ~r.out.parsed THEN r.out
                    ELSE IF op = "verify" THEN VerifyResult(r.out)
                    ELSE PostResult(r.out)
       /\ had_success' = (had_success \/ (r.out.parsed /\ r.out.status = "success"))
    /\ response' = res
    /\ pc' = "idle"
    /\ call' = NoCall
    /\ request' = NoRequest
    /\ UNCHANGED << defaults, op >>

Next ==
    \/ \E key \in ApiKeys : Verify(key)
    \/ \E key \in ApiKeys, message \in Messages, priority \in PriorityArgs, app \in AppArgs,
          event \in EventArgs, providerkey \in ProviderKeyArgs :
            Post(key, message, priority, app, event, providerkey)
    \/ \E message \in Messages, kwargs \in Overrides : ProwlPost(message, kwargs)
    \/ \E record \in Records : Emit(record)
    \/ \E res \in Responses : Respond(res)

Spec == Init /\ [][Next]_vars

\* ================================================================ claims
\* The lower-cased form of each server text, written out.
LoweredText(x) ==
    CASE x = INVALID_API_KEY
           -> << "i", "n", "v", "a", "l", "i", "d", " ", "a", "p", "i", " ", "k", "e", "y" >>
      [] x = << "i", "n", "v", "a", "l", "i", "d", " ", "a", "p", "i", " ", "k", "e", "y" >>
           -> << "i", "n", "v", "a", "l", "i", "d", " ", "a", "p", "i", " ", "k", "e", "y" >>
      [] x = << "I", "n", "t", "e", "r", "n", "a", "l", " ", "e", "r", "r", "o", "r" >>
           -> << "i", "n", "t", "e", "r", "n", "a", "l", " ", "e", "r", "r", "o", "r" >>

Completed == pc = "idle" /\ response # NoResponse

\* The response is an XML document with root prowl and exactly one child.
OneChild == response.kind = "xml" /\ response.root = "prowl" /\ Len(response.children) = 1

TheChild == response.children[1]

IsInvalidKeyEnvelope ==
    /\ result.status = "error"
    /\ result.data["code"] = 401
    /\ result.text = Some(INVALID_API_KEY)

\* C1: for every envelope _request returns, verify returns True on success,
\* returns False exactly for error / 401 / "Invalid API key", and raises
\* Error with the lower-cased server text for every other error envelope.
C1_VerifyClassifies ==
    (Completed /\ op = "verify" /\ result.parsed) =>
        /\ result.status = "success" => (result.exc = "none" /\ result.ret = "True")
        /\ (result.exc = "none" /\ result.ret = "False") <=> IsInvalidKeyEnvelope
        /\ (result.status = "error" /\ ~IsInvalidKeyEnvelope) =>
               /\ result.exc = "Error"
               /\ result.msg = LoweredText(TheChild.text[1])

\* verify raised for a 401 whose text differs from "Invalid API key" only in case.
C1_Witness ==
    /\ Completed /\ op = "verify" /\ result.parsed
    /\ result.status = "error"
    /\ result.data["code"] = 401
    /\ result.text # Some(INVALID_API_KEY)
    /\ LoweredText(result.text[1]) = LoweredText(INVALID_API_KEY)
    /\ result.exc = "Error"

\* C2: post raises Error with the lower-cased server text when the status is
\* error, and returns None without raising when the status is success.
C2_PostRaisesOnError ==
    (Completed /\ op # "verify" /\ result.parsed) =>
        IF TheChild.tag = "error"
        THEN result.exc = "Error" /\ result.msg = LoweredText(TheChild.text[1])
        ELSE result.exc = "none" /\ result.ret = "None"

\* post raised with a message that differs from the server text as sent.
C2_Witness ==
    /\ Completed /\ op = "post" /\ result.parsed
    /\ result.exc = "Error"
    /\ result.msg # TheChild.text[1]

\* A success envelope with exactly code = 200, remaining and resetdate came back.
FullSuccess ==
    /\ Completed /\ result.parsed /\ result.status = "success"
    /\ DOMAIN TheChild.attrib = { "code", "remaining", "resetdate" }
    /\ result.data["code"] = 200

\* C3 as stated: after such a call the cache is exactly {remaining, resetdate}.
C3_CacheExactlyQuota ==
    FullSuccess =>
        last_meta_data = [remaining |-> result.data["remaining"],
                          resetdate |-> result.data["resetdate"]]

\* C3 amended: after such a call the cache holds remaining = N and
\* resetdate = T (next to code = 200), whatever it held before, and
\* get_remaining() is N and get_reset_time() is T.
C3_CacheHoldsQuota ==
    FullSuccess =>
        /\ { "code", "remaining", "resetdate" } \subseteq DOMAIN last_meta_data
        /\ last_meta_data["remaining"] = IntOf(TheChild.attrib["remaining"])
        /\ last_meta_data["resetdate"] = IntOf(TheChild.attrib["resetdate"])
        /\ last_meta_data["code"] = 200
        /\ get_remaining(last_meta_data) = Some(IntOf(TheChild.attrib["remaining"]))
        /\ get_reset_time(last_meta_data) = Some(1700000000)

\* Scenario A's shape: post returned normally and the quota reads back.
C3_Witness ==
    /\ FullSuccess /\ op = "post" /\ result.ret = "None"
    /\ TheChild.attrib["remaining"] = << "1" >>
    /\ get_remaining(last_meta_data) = Some(1)

\* C4: an error child with a code but no text makes the call raise Error;
\* with text (and integer attributes) the text is returned verbatim.
C4_EmptyErrorTextIsError ==
    (Completed /\ OneChild /\ TheChild.tag = "error" /\ "code" \in DOMAIN TheChild.attrib) =>
        IF TheChild.text = None
        THEN result.exc = "Error" /\ ~result.parsed
        ELSE (\A k \in DOMAIN TheChild.attrib : IsIntLiteral(TheChild.attrib[k])) =>
                 (result.parsed /\ result.text = TheChild.text)

MalformedReasons ==
    { "malformed response: unexpected tag", "malformed response: too many children",
      "malformed response: unknown status", "malformed response: no response code" }

StructurallyMalformed ==
    /\ response.kind = "xml"
    /\ \/ response.root # "prowl"
       \/ Len(response.children) # 1
       \/ TheChild.tag \notin { "success", "error" }
       \/ "code" \notin DOMAIN TheChild.attrib

\* C5: a wrong root tag, a child count other than one, an unknown child tag
\* or a missing code attribute makes the call raise Error and return nothing.
C5_MalformedRaisesError ==
    (Completed /\ StructurallyMalformed) =>
        /\ result.exc = "Error"
        /\ result.reason \in MalformedReasons
        /\ ~result.parsed
        /\ result.ret = "-"

\* A prowl root with two children was rejected.
C5_Witness ==
    /\ Completed /\ response.kind = "xml" /\ response.root = "prowl"
    /\ Len(response.children) = 2
    /\ result.exc = "Error"

\* The value a Prowl.post request must carry for an optional field.
ExpectedField(name, fallback) ==
    IF name \in DOMAIN call.kwargs THEN call.kwargs[name][1]
    ELSE IF name \in DOMAIN defaults THEN defaults[name][1]
    ELSE fallback

\* C6: every request of a Prowl object carries the key bound at
\* construction; each other field is the override when given, the bound
\* default otherwise.
C6_KeyFixed ==
    (pc = "waiting" /\ op \in { "Prowl.post", "LogHandler.emit" }) =>
        /\ request.data[1].apikey = ApiKey(defaults["key"])
        /\ request.data[1].priority = ExpectedField("priority", DEFAULT_PRIORITY)
        /\ request.data[1].application = ExpectedField("app", DEFAULT_APP)
        /\ request.data[1].event = ExpectedField("event", DEFAULT_EVENT)

\* C7: while no request has returned a success status, get_remaining() and
\* get_reset_time() are None.
C7_NoneBeforeSuccess ==
    ~had_success =>
        /\ get_remaining(last_meta_data) = None
        /\ get_reset_time(last_meta_data) = None

\* C8: an otherwise well-formed envelope with a non-integer attribute makes
\* the call raise Error.
C8_NonIntegerIsError ==
    (/\ Completed /\ OneChild
     /\ TheChild.tag \in { "success", "error" }
     /\ "code" \in DOMAIN TheChild.attrib
     /\ TheChild.tag = "error" => TheChild.text # None
     /\ \E k \in DOMAIN TheChild.attrib : ~IsIntLiteral(TheChild.attrib[k])) =>
        result.exc = "Error" /\ ~result.parsed

\* C9: emit never fails because a template does not interpolate, and posts
\* the formatted message.
C9_EmitFallsBack ==
    op = "LogHandler.emit" =>
        /\ result.reason # "interpolation"
        /\ pc = "waiting" => request.data[1].description = call.message

\* C10: the cache changes only in a request that returns a parsed envelope;
\* a request that raises leaves it as it was.
C10_FailureKeepsCache ==
    [][last_meta_data' # last_meta_data => (pc = "waiting" /\ result'.parsed)]_vars

\* int() refused one attribute of an envelope whose other attributes would
\* have changed a cache that already held values.
C10_Witness ==
    /\ Completed /\ result.exc = "ValueError"
    /\ \E k \in DOMAIN CoercibleData(response) :
          k \in DOMAIN last_meta_data /\ last_meta_data[k] # CoercibleData(response)[k]

====
